---- MODULE Spec2Model ----
(***************************************************************************)
(* Incremental, quality-gated ETL of transaction records:                  *)
(*   scripts/ingest.py        raw CSV batches -> staging (watermark)       *)
(*   scripts/data_quality.py  staging -> valid CSV + quarantine            *)
(*   scripts/load_fact.py     valid CSV -> fact table (upsert)             *)
(*   dags/ecommerce_transactions_etl.py  the task chain and its retries    *)
(*                                                                         *)
(* A cell of a data frame or of a table is None (NULL / NaN / NaT) or      *)
(* Some(v).  A data frame is a sequence of [idx, row]: idx is the pandas   *)
(* index label the row keeps through every filter.                         *)
(***************************************************************************)
EXTENDS Integers, Sequences, FiniteSets, TLC

VARIABLES
    raw,        \* landing area: the CSV batches, in sorted file-name order
    staging,    \* staging.transactions: NoTable or Table(rows in insertion order)
    products,   \* public.products: NoTable or Table(set of product_id)
    quarantine, \* quarantine.transactions_errors: NoTable or Table(rows)
    validcsv,   \* valid_transactions.csv: NoFile or File(rows)
    fact,       \* public.fact_transactions: its rows
    pc,         \* the task of the DAG run that is due
    tries,      \* attempts of that task already failed in this run
    runs,       \* DAG runs started
    clock,      \* datetime.utcnow() of the latest quality run
    result,     \* exit of the latest task: "none", "ok", "failed"
    schema,     \* the header of the landing files, and so the columns of staging
    mark,       \* history: the stores as they were when the current run started,
                \* kept if the run before it had completed
    late,       \* history: the landing records that were at or under the staging
                \* watermark when they first landed
    inp,        \* arguments of the function applied (GateSpec, FilterSpec,
                \* CollectSpec, MergeSpec)
    out         \* its results, one per call

vars == <<raw, staging, products, quarantine, validcsv, fact, pc, tries, runs,
          clock, result, schema, mark, late, inp, out>>

pipevars == <<raw, staging, products, quarantine, validcsv, fact, pc, tries,
              runs, clock, result, schema, mark, late>>

----------------------------------------------------------------------------
(* Cells and rows *)

None == <<>>

Some(v) == <<v>>

Val(c) == c[1]

isnull(c) == c = None

notnull(c) == c # None

\* a relation or a file is absent, or it is there with its content
NoTable == <<>>

Table(content) == <<content>>

NoFile == <<>>

File(content) == <<content>>

Content(t) == t[1]

EXPECTED_COLUMNS ==
    <<"transaction_id", "customer_id", "product_id", "amount",
      "transaction_date", "status", "updated_at">>

NOT_NULL_COLUMNS ==
    <<"transaction_id", "customer_id", "product_id", "amount", "transaction_date">>

VALID_STATUS == {"completed", "pending", "cancelled", "success"}

\* the cell as it is
str_asis(c) == c

\* Series.str.lower(): a missing value stays missing
str_lower(c) ==
    IF isnull(c) THEN None
    ELSE CASE Val(c) = "SUCCESS" -> Some("success")
           [] Val(c) = "FAILED" -> Some("failed")
           [] Val(c) = "PENDING" -> Some("pending")
           [] OTHER -> c

\* Series.isin(values): a missing value is in no set of strings
isin(c, values) == notnull(c) /\ Val(c) \in values

Range(s) == {s[i] : i \in 1..Len(s)}

\* DataFrame(rows): the rows under the default index 0, 1, ...
Frame(rows) == [i \in 1..Len(rows) |-> [idx |-> i - 1, row |-> rows[i]]]

Rows(d) == [i \in 1..Len(d) |-> d[i].row]

\* df.duplicated(col, keep=False): missing values count as equal to each other
duplicated_all(d, col) ==
    [i \in 1..Len(d) |-> \E j \in 1..Len(d) : j # i /\ d[j].row[col] = d[i].row[col]]

\* df.duplicated(col) (keep="first"): marks every occurrence but the first
duplicated_first(d, col) ==
    [i \in 1..Len(d) |-> \E j \in 1..(i - 1) : d[j].row[col] = d[i].row[col]]

\* df[mask]
Mask(d, mask) ==
    LET RECURSIVE Take(_)
        Take(i) ==
            IF i > Len(d) THEN <<>>
            ELSE (IF mask[i] THEN <<d[i]>> ELSE <<>>) \o Take(i + 1)
    IN Take(1)

\* the frame as it is, no row dropped
keep_duplicates(d, col) == d

drop_duplicates(d, col) ==
    Mask(d, [i \in 1..Len(d) |-> ~duplicated_first(d, col)[i]])

----------------------------------------------------------------------------
(* scripts/data_quality.py: apply_data_quality_checks *)

DuplicateMsg == "Duplicate transaction_id"

NullMsg(col) == "NULL value in " \o col

AmountMsg == "Amount must be > 0"

StatusMsg == "Invalid status value"

ProductMsg == "Invalid product_id"

\* errors.append((row["transaction_id"], msg)) for every row of `bad`
ErrorsOf(bad, msg) ==
    [i \in 1..Len(bad) |->
        [idx |-> bad[i].idx,
         transaction_id |-> bad[i].row.transaction_id,
         error_message |-> msg]]

NormalizeStatus(d) ==
    [i \in 1..Len(d) |->
        [d[i] EXCEPT !.row = [@ EXCEPT !.status = str_lower(@)]]]

DuplicateCheck(st) ==
    LET dupes == Mask(st.valid, duplicated_all(st.valid, "transaction_id"))
    IN [valid |-> drop_duplicates(st.valid, "transaction_id"),
        errors |-> st.errors \o ErrorsOf(dupes, DuplicateMsg)]

NotNullCheck(st, col) ==
    LET v == st.valid
        nulls == Mask(v, [i \in 1..Len(v) |-> isnull(v[i].row[col])])
    IN [valid |-> Mask(v, [i \in 1..Len(v) |-> notnull(v[i].row[col])]),
        errors |-> st.errors \o ErrorsOf(nulls, NullMsg(col))]

RECURSIVE NotNullChecks(_, _)
NotNullChecks(st, k) ==
    IF k > Len(NOT_NULL_COLUMNS) THEN st
    ELSE NotNullChecks(NotNullCheck(st, NOT_NULL_COLUMNS[k]), k + 1)

\* amount < 0: zero is not caught
lt_zero(c) == notnull(c) /\ Val(c) < 0

\* a comparison with a missing value is False, whichever way it points
le_zero(c) == notnull(c) /\ Val(c) <= 0

gt_zero(c) == notnull(c) /\ Val(c) > 0

AmountCheck(st) ==
    LET v == st.valid
        invalid_amount == Mask(v, [i \in 1..Len(v) |-> le_zero(v[i].row.amount)])
    IN [valid |-> Mask(v, [i \in 1..Len(v) |-> gt_zero(v[i].row.amount)]),
        errors |-> st.errors \o ErrorsOf(invalid_amount, AmountMsg)]

StatusCheck(st) ==
    LET v == st.valid
        invalid_status ==
            Mask(v, [i \in 1..Len(v) |-> ~isin(v[i].row.status, VALID_STATUS)])
    IN [valid |-> Mask(v, [i \in 1..Len(v) |-> isin(v[i].row.status, VALID_STATUS)]),
        errors |-> st.errors \o ErrorsOf(invalid_status, StatusMsg)]

\* the rule applied whatever the reference set holds
ProductCheckAlways(st, products_set) ==
    LET v == st.valid
        invalid_products ==
            Mask(v, [i \in 1..Len(v) |-> ~isin(v[i].row.product_id, products_set)])
    IN [valid |->
            Mask(v, [i \in 1..Len(v) |-> isin(v[i].row.product_id, products_set)]),
        errors |-> st.errors \o ErrorsOf(invalid_products, ProductMsg)]

ProductCheck(st, products_set) ==
    IF products_set = {} THEN st
    ELSE
        LET v == st.valid
            invalid_products ==
                Mask(v, [i \in 1..Len(v) |-> ~isin(v[i].row.product_id, products_set)])
        IN [valid |->
                Mask(v, [i \in 1..Len(v) |-> isin(v[i].row.product_id, products_set)]),
            errors |-> st.errors \o ErrorsOf(invalid_products, ProductMsg)]

\* error_df["error_timestamp"] = datetime.utcnow()
Stamp(errors, now) ==
    [i \in 1..Len(errors) |->
        [idx |-> errors[i].idx,
         transaction_id |-> errors[i].transaction_id,
         error_message |-> errors[i].error_message,
         error_timestamp |-> now]]

\* no column is looked for
no_missing_columns(cols) == <<>>

\* the expected columns that are not among the columns of the frame, in
\* the order the schema check comes to them
missing_columns(cols) ==
    LET RECURSIVE Look(_)
        Look(k) ==
            IF k > Len(EXPECTED_COLUMNS) THEN <<>>
            ELSE (IF EXPECTED_COLUMNS[k] \in cols THEN <<>> ELSE <<EXPECTED_COLUMNS[k]>>)
                     \o Look(k + 1)
    IN Look(1)

MissingMsg(col) == "Missing required column: " \o col

\* of a frame with the columns cols: the ValueError raised, or
\* (valid_df, error_df); a cell of a column the frame has not reads as
\* missing
apply_data_quality_checks(cols, d, products_set, now) ==
    IF missing_columns(cols) # <<>>
    THEN [raised |-> Some(MissingMsg(Head(missing_columns(cols))))]
    ELSE
        LET s0 == [valid |-> NormalizeStatus(d), errors |-> <<>>]
            s1 == DuplicateCheck(s0)
            s2 == NotNullChecks(s1, 1)
            s3 == AmountCheck(s2)
            s4 == StatusCheck(s3)
            s5 == ProductCheck(s4, products_set)
        IN [raised |-> None, valid |-> s5.valid, errors |-> Stamp(s5.errors, now)]

----------------------------------------------------------------------------
(* scripts/ingest.py.  A timestamp cell is an instant on the UTC time line,  *)
(* which is what pd.to_datetime(..., utc=True) makes of the parsed column.   *)

\* the comparison with >= in place of >
not_older_than(c, max_updated_at) == notnull(c) /\ Val(c) >= Val(max_updated_at)

\* df["updated_at"] > max_updated_at: False for a missing timestamp (NaT)
newer_than(c, max_updated_at) == notnull(c) /\ Val(c) > Val(max_updated_at)

\* a first run filtered like any other, from the start of time on: a row
\* without a timestamp is held back
filter_from_epoch(d, max_updated_at) ==
    IF Len(d) = 0 THEN d
    ELSE
        LET filtered ==
                Mask(d, [i \in 1..Len(d) |->
                            /\ notnull(d[i].row.updated_at)
                            /\ max_updated_at # None =>
                                   newer_than(d[i].row.updated_at, max_updated_at)])
        IN drop_duplicates(filtered, "transaction_id")

filter_incremental(d, max_updated_at) ==
    IF Len(d) = 0 THEN d
    ELSE IF max_updated_at = None THEN drop_duplicates(d, "transaction_id")
    ELSE
        LET filtered ==
                Mask(d, [i \in 1..Len(d) |-> newer_than(d[i].row.updated_at, max_updated_at)])
        IN drop_duplicates(filtered, "transaction_id")

----------------------------------------------------------------------------
(* scripts/load_fact.py *)

page_size == 1000

\* ON CONFLICT (transaction_id, transaction_date): two rows conflict when
\* both have the same key; a NULL in the key equals nothing
Conflict(a, b) ==
    /\ notnull(a.transaction_id) /\ notnull(a.transaction_date)
    /\ a.transaction_id = b.transaction_id
    /\ a.transaction_date = b.transaction_date

\* a plain INSERT: no conflict clause
InsertRow(F, r) == Append(F, r)

\* INSERT ... ON CONFLICT ... DO UPDATE SET of one row
UpsertRow(F, r) ==
    IF \E i \in 1..Len(F) : Conflict(F[i], r)
    THEN [i \in 1..Len(F) |->
            IF Conflict(F[i], r)
            THEN [F[i] EXCEPT !.customer_id = r.customer_id,
                              !.product_id = r.product_id,
                              !.amount = r.amount,
                              !.status = r.status,
                              !.updated_at = r.updated_at]
            ELSE F[i]]
    ELSE Append(F, r)

\* one statement may not touch the same row twice
CardinalityViolation(page) ==
    \E i, j \in 1..Len(page) : i < j /\ Conflict(page[i], page[j])

RECURSIVE ExecutePage(_, _)
ExecutePage(F, page) ==
    IF page = <<>> THEN F
    ELSE ExecutePage(UpsertRow(F, Head(page)), Tail(page))

\* execute_values(cur, insert_sql, values, page_size): one statement per page
\* of page_size rows, in order, until one raises
RECURSIVE execute_values(_, _)
execute_values(F, values) ==
    IF values = <<>> THEN [raised |-> FALSE, fact |-> F]
    ELSE
        LET n == IF Len(values) < page_size THEN Len(values) ELSE page_size
            page == SubSeq(values, 1, n)
        IN IF CardinalityViolation(page) THEN [raised |-> TRUE, fact |-> F]
           ELSE execute_values(ExecutePage(F, page), SubSeq(values, n + 1, Len(values)))

Faults == {"none", "connect", "execute", "commit"}

\* the same on a connection in autocommit mode
Autocommitted(before, done, committed) == done

\* the table as the next connection sees it when the call ends: `done` if
\* conn.commit() returned, else `before`
Committed(before, done, committed) == IF committed THEN done ELSE before

\* upsert_fact_table(df) on fact table F; fault is where the database fails
\* the call, if it does: at get_connection(), in the first statement of
\* execute_values, or at conn.commit() with every statement done
upsert_fact_table(F, df, fault) ==
    IF Len(df) = 0 THEN [status |-> "ok", count |-> 0, fact |-> F]
    ELSE IF fault = "connect" THEN [status |-> "failed", count |-> 0, fact |-> F]
    ELSE
        LET ex == execute_values(F, df)
            raised == ex.raised \/ fault \in {"execute", "commit"}
            done == IF fault = "execute" THEN F ELSE ex.fact
        IN [status |-> IF raised THEN "failed" ELSE "ok",
            count |-> IF raised THEN 0 ELSE Len(df),
            fact |-> Committed(F, done, ~raised)]

----------------------------------------------------------------------------
(* scripts/ingest.py: the stores *)

Max(S) == CHOOSE x \in S : \A y \in S : y <= x

\* no watermark is found, whatever staging holds
get_no_watermark(stg) == None

\* SELECT MAX(updated_at) FROM staging.transactions, None without the table;
\* MAX skips NULL and is NULL when nothing is left
get_max_updated_at(stg) ==
    IF stg = NoTable THEN None
    ELSE
        LET known == {Val(r.updated_at) : r \in {x \in Range(Content(stg)) : notnull(x.updated_at)}}
        IN IF known = {} THEN None ELSE Some(Max(known))

\* pd.concat of the files in sorted order; ignore_index renumbers the rows
RECURSIVE Concat(_)
Concat(batches) ==
    IF batches = <<>> THEN <<>> ELSE Head(batches) \o Concat(Tail(batches))

load_csv_files(files) == Frame(Concat(files))

\* df.to_sql(..., if_exists="append"): creates the table when it is not there
load_to_staging(stg, d) ==
    IF Len(d) = 0 THEN stg
    ELSE IF stg = NoTable THEN Table(Rows(d))
    ELSE Table(Content(stg) \o Rows(d))

\* read_csv(parse_dates=...) of a file without one of the two date columns,
\* or df["updated_at"], drop_duplicates(subset=["transaction_id"]) of a
\* frame with rows and without that column
ingest_raises(cols, files) ==
    \/ files # <<>> /\ ~({"updated_at", "transaction_date"} \subseteq cols)
    \/ Concat(files) # <<>> /\ ~({"updated_at", "transaction_id"} \subseteq cols)

\* main(): the staging table after the run
ingest_main(stg, files) ==
    load_to_staging(stg, filter_incremental(load_csv_files(files), get_max_updated_at(stg)))

----------------------------------------------------------------------------
(* scripts/data_quality.py: the stores *)

\* CREATE SCHEMA / TABLE IF NOT EXISTS
ensure_quarantine(q) == IF q = NoTable THEN Table(<<>>) ELSE q

\* set(df["product_id"]), set() when the products table cannot be read
load_products(prod) == IF prod = NoTable THEN {} ELSE Content(prod)

\* the columns of error_df as to_sql(index=False) writes them
QuarantineRows(errors) ==
    [i \in 1..Len(errors) |->
        [transaction_id |-> errors[i].transaction_id,
         error_message |-> errors[i].error_message,
         error_timestamp |-> errors[i].error_timestamp]]

\* the same with if_exists="replace"
replace_quarantine(q, errors) ==
    IF Len(errors) = 0 THEN q
    ELSE Table(QuarantineRows(errors))

\* error_df.to_sql(..., if_exists="append")
load_quarantine(q, errors) ==
    IF Len(errors) = 0 THEN q
    ELSE Table(Content(q) \o QuarantineRows(errors))

DQFaults == {"none", "connect", "read", "to_csv"}

\* the rows staged last, those with the greatest updated_at, and no other
load_staging_newest(stg) ==
    LET rows == Content(stg)
    IN Rows(Mask(Frame(rows),
                 [i \in 1..Len(rows) |->
                     \A j \in 1..Len(rows) :
                         notnull(rows[j].updated_at) =>
                             /\ notnull(rows[i].updated_at)
                             /\ Val(rows[i].updated_at) >= Val(rows[j].updated_at)]))

\* SELECT * FROM the staging table: every row of it
load_staging(stg) == Content(stg)

\* df["updated_at"], df["transaction_date"] of a frame that has no such column
load_staging_raises(cols) == ~({"updated_at", "transaction_date"} \subseteq cols)

\* main(): exit status, quarantine table and valid file after the run over
\* a staging table with the columns cols; fault is where the database or
\* the disk fails it, if it does
data_quality_main(cols, stg, prod, q, csv, now, fault) ==
    IF fault = "connect" THEN [status |-> "failed", quarantine |-> q, validcsv |-> csv]
    ELSE IF fault = "read" \/ stg = NoTable \/ load_staging_raises(cols)
    THEN [status |-> "failed", quarantine |-> ensure_quarantine(q), validcsv |-> csv]
    ELSE
        LET checked ==
                apply_data_quality_checks(cols, Frame(load_staging(stg)),
                                          load_products(prod), now)
        IN IF checked.raised # None
           THEN [status |-> "failed", quarantine |-> ensure_quarantine(q), validcsv |-> csv]
           ELSE
               LET q2 == load_quarantine(ensure_quarantine(q), checked.errors)
               IN IF fault = "to_csv"
                  THEN [status |-> "failed", quarantine |-> q2, validcsv |-> csv]
                  ELSE [status |-> "ok", quarantine |-> q2,
                        validcsv |-> File(Rows(checked.valid))]

----------------------------------------------------------------------------
(* scripts/load_fact.py: main *)

\* load_valid_data(): an empty frame when the file is not there
load_valid_data(csv) == IF csv = NoFile THEN <<>> ELSE Content(csv)

load_fact_main(F, csv, fault) == upsert_fact_table(F, load_valid_data(csv), fault)

----------------------------------------------------------------------------
(* Inputs of GateSpec, FilterSpec, CollectSpec and MergeSpec *)

MaxLen == 3

\* files in the landing area
MaxBatches == 2

SeqsUpTo(S, n) == UNION { [1..k -> S] : k \in 0..n }

Row(t, c, p, a, d, s, u) ==
    [transaction_id |-> t, customer_id |-> c, product_id |-> p, amount |-> a,
     transaction_date |-> d, status |-> s, updated_at |-> u]

Good(t) ==
    Row(Some(t), Some("c1"), Some("p1"), Some(100), Some("d1"), Some("SUCCESS"), Some(1))

\* one clean record per transaction_id, every single defect, and records
\* that break several rules at once
GateRecords ==
    { Good("t1"), Good("t2"),
      [Good("t1") EXCEPT !.status = Some("success")],
      [Good("t1") EXCEPT !.transaction_id = None],
      [Good("t1") EXCEPT !.customer_id = None],
      [Good("t1") EXCEPT !.product_id = None],
      [Good("t1") EXCEPT !.product_id = Some("p9")],
      [Good("t1") EXCEPT !.amount = None],
      [Good("t1") EXCEPT !.amount = Some(0)],
      [Good("t1") EXCEPT !.amount = Some(-10)],
      [Good("t1") EXCEPT !.transaction_date = None],
      [Good("t1") EXCEPT !.status = None],
      [Good("t1") EXCEPT !.status = Some("FAILED")],
      [Good("t1") EXCEPT !.updated_at = None],
      [Good("t2") EXCEPT !.customer_id = None, !.amount = None],
      [Good("t2") EXCEPT !.amount = Some(-10), !.status = Some("FAILED")],
      [Good("t2") EXCEPT !.amount = Some(0), !.status = None],
      [Good("t2") EXCEPT !.status = Some("FAILED"), !.product_id = Some("p9")],
      [Good("t2") EXCEPT !.transaction_date = None, !.updated_at = None] }

\* public.products: not there, empty, holding one product
ProductTables == {NoTable, Table({}), Table({"p1"})}

\* what load_products makes of them
ProductSets == { load_products(t) : t \in ProductTables }

\* batches for the filter: two ids, timestamps around the watermarks, NaT
FilterRecords ==
    { [Good(t) EXCEPT !.updated_at = u] :
        t \in {"t1", "t2"}, u \in {None, Some(1), Some(2), Some(3)} }

Watermarks == {None, Some(1), Some(2)}

\* records of the landing files: two ids, timestamps on both sides of the
\* watermarks, NaT
CollectRecords ==
    { [Good(t) EXCEPT !.updated_at = u] : t \in {"t1", "t2"}, u \in {Some(1), Some(3)} }
        \cup { [Good("t1") EXCEPT !.updated_at = None] }

\* a CSV file: a header alone, one record, two records
CollectFiles ==
    {<<>>} \cup { <<r>> : r \in CollectRecords }
           \cup { <<r, s>> : r \in CollectRecords, s \in CollectRecords }

Merged(t, d, a, u) ==
    Row(Some(t), Some("c1"), Some("p1"), Some(a), Some(d), Some("success"), u)

\* rows as the quality gate lets them through: three composite keys, two
\* versions of one of them, a missing updated_at
MergeRecords ==
    { Merged("t1", "d1", 100, Some(1)), Merged("t1", "d1", 200, Some(2)),
      Merged("t2", "d1", 100, Some(1)), Merged("t1", "d2", 100, Some(1)),
      Merged("t2", "d1", 100, None) }

MaxCalls == 2

\* fact tables the unique index on the composite key allows
FactStates ==
    { F \in SeqsUpTo(MergeRecords, 2) :
        \A i, j \in 1..Len(F) : i < j => ~Conflict(F[i], F[j]) }

PipeIdle ==
    /\ raw = <<>>
    /\ staging = NoTable
    /\ products = NoTable
    /\ quarantine = NoTable
    /\ validcsv = NoFile
    /\ fact = <<>>
    /\ pc = "none"
    /\ tries = 0
    /\ runs = 0
    /\ clock = 0
    /\ result = "none"
    /\ schema = Range(EXPECTED_COLUMNS)
    /\ mark = <<>>
    /\ late = {}

----------------------------------------------------------------------------
(* GateSpec: apply_data_quality_checks on every frame of up to MaxLen rows *)

GateInit ==
    /\ PipeIdle
    /\ inp \in [df : SeqsUpTo(GateRecords, MaxLen), products_set : ProductSets]
    /\ out = <<>>

ApplyChecks ==
    /\ out = <<>>
    /\ out' = <<apply_data_quality_checks(Range(EXPECTED_COLUMNS), Frame(inp.df),
                                          inp.products_set, 1)>>
    /\ UNCHANGED <<inp, pipevars>>

GateNext == ApplyChecks

GateSpec == GateInit /\ [][GateNext]_vars

GateDone == out # <<>>

Accepted == out[1].valid

Rejected == out[1].errors

InIdx == {i - 1 : i \in 1..Len(inp.df)}

AccIdx == {Accepted[k].idx : k \in 1..Len(Accepted)}

RejIdx == {Rejected[k].idx : k \in 1..Len(Rejected)}

\* the rejection entries of input record i
EntriesOf(i) == {k \in 1..Len(Rejected) : Rejected[k].idx = i}

InRow(i) == inp.df[i + 1]

UniqueId(i) ==
    \A j \in InIdx : j # i => InRow(j).transaction_id # InRow(i).transaction_id

----------------------------------------------------------------------------
(* FilterSpec: filter_incremental on every batch of up to MaxLen rows *)

FilterInit ==
    /\ PipeIdle
    /\ inp \in [df : SeqsUpTo(FilterRecords, MaxLen), max_updated_at : Watermarks]
    /\ out = <<>>

ApplyFilter ==
    /\ out = <<>>
    /\ out' = <<filter_incremental(Frame(inp.df), inp.max_updated_at)>>
    /\ UNCHANGED <<inp, pipevars>>

FilterNext == ApplyFilter

FilterSpec == FilterInit /\ [][FilterNext]_vars

FilterDone == out # <<>>

Filtered == out[1]

----------------------------------------------------------------------------
(* CollectSpec: main() of ingest.py from the landing files to the frame it   *)
(* hands to load_to_staging, on up to MaxBatches files                       *)

CollectInit ==
    /\ PipeIdle
    /\ inp \in [files : SeqsUpTo(CollectFiles, MaxBatches), max_updated_at : Watermarks]
    /\ out = <<>>

ApplyCollect ==
    /\ out = <<>>
    /\ LET df == load_csv_files(inp.files)
       IN out' = <<[df |-> df, new_df |-> filter_incremental(df, inp.max_updated_at)]>>
    /\ UNCHANGED <<inp, pipevars>>

CollectNext == ApplyCollect

CollectSpec == CollectInit /\ [][CollectNext]_vars

CollectDone == out # <<>>

\* what load_csv_files returned
Collected == out[1].df

\* what filter_incremental made of it
NewRows == out[1].new_df

----------------------------------------------------------------------------
(* MergeSpec: up to MaxCalls calls of upsert_fact_table with one frame *)

MergeInit ==
    /\ raw = <<>>
    /\ staging = NoTable
    /\ products = NoTable
    /\ quarantine = NoTable
    /\ validcsv = NoFile
    /\ fact \in FactStates
    /\ pc = "none"
    /\ tries = 0
    /\ runs = 0
    /\ clock = 0
    /\ result = "none"
    /\ schema = Range(EXPECTED_COLUMNS)
    /\ mark = <<>>
    /\ late = {}
    /\ inp \in [df : SeqsUpTo(MergeRecords, MaxLen)]
    /\ out = <<>>

MergeCall ==
    /\ Len(out) < MaxCalls
    /\ \E fault \in Faults :
        LET res == upsert_fact_table(fact, inp.df, fault)
        IN /\ fact' = res.fact
           /\ result' = res.status
           /\ out' = Append(out, [status |-> res.status, count |-> res.count,
                                  before |-> fact, after |-> res.fact])
    /\ UNCHANGED <<inp, raw, staging, products, quarantine, validcsv, pc, tries,
                   runs, clock, schema, mark, late>>

MergeNext == MergeCall

MergeSpec == MergeInit /\ [][MergeNext]_vars

RowsOfKey(F, r) == {i \in 1..Len(F) : Conflict(F[i], r)}

----------------------------------------------------------------------------
(* Spec: the DAG ecommerce_transactions_etl over a growing landing area *)

MaxRuns == 2

retries == 1

Txn(t, a, u) ==
    Row(Some(t), Some("c1"), Some("p1"), Some(a), Some("d1"), Some("SUCCESS"), u)

\* the batches that land: a transaction, a later version of it, a second
\* transaction that arrives late, versions of it with a bad amount (with and
\* without a timestamp), and files that hold two records
Batches ==
    { <<Txn("t1", 100, Some(1))>>,
      <<Txn("t1", 200, Some(2))>>,
      <<Txn("t2", 100, Some(1))>>,
      <<Txn("t2", 0, Some(2))>>,
      <<Txn("t2", 0, None)>>,
      <<Txn("t1", 100, Some(1)), Txn("t2", 100, Some(1))>>,
      <<Txn("t1", 100, Some(1)), Txn("t1", 200, Some(2))>> }

\* the headers a producer of landing files may write: the seven columns,
\* all but status, all but updated_at
ColumnSets ==
    { Range(EXPECTED_COLUMNS),
      Range(EXPECTED_COLUMNS) \ {"status"},
      Range(EXPECTED_COLUMNS) \ {"updated_at"} }

\* the records of a file written under the header cols: a column that is
\* not in the file has no cell
Project(b, cols) ==
    [i \in 1..Len(b) |->
        [c \in DOMAIN b[i] |-> IF c \in cols THEN b[i][c] ELSE None]]

Init ==
    /\ raw = <<>>
    /\ staging = NoTable
    /\ products \in {NoTable, Table({"p1"})}
    /\ quarantine = NoTable
    /\ validcsv = NoFile
    /\ fact = <<>>
    /\ pc = "generate_source_data"
    /\ tries = 0
    /\ runs = 0
    /\ clock = 0
    /\ result = "none"
    /\ schema \in ColumnSets
    /\ mark = <<>>
    /\ late = {}
    /\ inp = <<>>
    /\ out = <<>>

\* the latest run went through all its tasks
Completed == pc = "generate_source_data" /\ result = "ok"

Snapshot == IF Completed THEN <<[raw |-> raw, staging |-> staging, fact |-> fact]>> ELSE <<>>

\* a task exits 0: the next task is due
Succeed(next) ==
    /\ pc' = next
    /\ tries' = 0
    /\ result' = "ok"

\* a task raises: it is tried again, retries times, then the run has failed
Fail ==
    /\ result' = "failed"
    /\ IF tries < retries
       THEN pc' = pc /\ tries' = tries + 1
       ELSE pc' = "generate_source_data" /\ tries' = 0

\* the timestamps staging holds in its updated_at column
StagedTimestamps(stg) ==
    IF stg = NoTable THEN {}
    ELSE {Val(r.updated_at) : r \in {x \in Range(Content(stg)) : notnull(x.updated_at)}}

\* the records of batch b that were in no file before and are not newer
\* than every timestamp staging holds
LateIn(b) ==
    {r \in Range(b) :
        /\ r \notin Range(Concat(raw))
        /\ notnull(r.updated_at)
        /\ \E w \in StagedTimestamps(staging) : Val(r.updated_at) <= w}

\* a run starts and a new batch has landed, named after the time it was written
GenerateSourceData ==
    /\ pc = "generate_source_data"
    /\ runs < MaxRuns
    /\ Len(raw) < MaxBatches
    /\ \E b \in Batches :
          /\ raw' = Append(raw, Project(b, schema))
          /\ late' = late \cup LateIn(Project(b, schema))
    /\ mark' = <<>>
    /\ runs' = runs + 1
    /\ pc' = "ingest_staging"
    /\ tries' = 0
    /\ UNCHANGED <<staging, products, quarantine, validcsv, fact, clock, result, schema, inp, out>>

\* a run starts over the landing area as it is
Retrigger ==
    /\ pc = "generate_source_data"
    /\ runs < MaxRuns
    /\ mark' = Snapshot
    /\ runs' = runs + 1
    /\ pc' = "ingest_staging"
    /\ tries' = 0
    /\ UNCHANGED <<raw, staging, products, quarantine, validcsv, fact, clock, result, schema, late, inp, out>>

IngestStaging ==
    /\ pc = "ingest_staging"
    /\ ~ingest_raises(schema, raw)
    /\ staging' = ingest_main(staging, raw)
    /\ Succeed("run_data_quality")
    /\ UNCHANGED <<raw, products, quarantine, validcsv, fact, runs, clock, schema, mark, late, inp, out>>

\* the files cannot be read as the frame ingest works on, the database is
\* unreachable or the insert fails: to_sql rolls back
IngestStagingFails ==
    /\ pc = "ingest_staging"
    /\ Fail
    /\ UNCHANGED <<raw, staging, products, quarantine, validcsv, fact, runs, clock, schema, mark, late, inp, out>>

RunDataQuality ==
    /\ pc = "run_data_quality"
    /\ \E fault \in DQFaults :
        LET res == data_quality_main(schema, staging, products, quarantine, validcsv, clock + 1, fault)
        IN /\ quarantine' = res.quarantine
           /\ validcsv' = res.validcsv
           /\ IF res.status = "ok" THEN Succeed("load_fact_table") ELSE Fail
    /\ clock' = clock + 1
    /\ UNCHANGED <<raw, staging, products, fact, runs, schema, mark, late, inp, out>>

LoadFactTable ==
    /\ pc = "load_fact_table"
    /\ \E fault \in Faults :
        LET res == load_fact_main(fact, validcsv, fault)
        IN /\ fact' = res.fact
           /\ IF res.status = "ok" THEN Succeed("generate_source_data") ELSE Fail
    /\ UNCHANGED <<raw, staging, products, quarantine, validcsv, runs, clock, schema, mark, late, inp, out>>

Next ==
    \/ GenerateSourceData
    \/ Retrigger
    \/ IngestStaging
    \/ IngestStagingFails
    \/ RunDataQuality
    \/ LoadFactTable

Spec == Init /\ [][Next]_vars

----------------------------------------------------------------------------
(* Claims on the pipeline (Spec) *)

\* the per-record rules: no null required field, amount > 0, valid status,
\* known product
RecordValid(r) ==
    /\ \A k \in 1..Len(EXPECTED_COLUMNS) : notnull(r[EXPECTED_COLUMNS[k]])
    /\ Val(r.amount) > 0
    /\ Val(str_lower(r.status)) \in VALID_STATUS
    /\ load_products(products) # {} => Val(r.product_id) \in load_products(products)

Staged == IF staging = NoTable THEN {} ELSE Range(Content(staging))

\* the valid versions of the key of fact row f that staging holds
ValidVersions(f) == {r \in Staged : Conflict(r, f) /\ RecordValid(r)}

\* C1: after any sequence of complete runs, every fact row carries the
\* greatest updated_at among the valid versions of its composite key that
\* were ingested into staging.
C1_LastWriteWins ==
    Completed =>
        \A i \in 1..Len(fact) :
            /\ ValidVersions(fact[i]) # {}
            /\ fact[i].updated_at =
                   Some(Max({Val(r.updated_at) : r \in ValidVersions(fact[i])}))

\* C7: a complete run over an unchanged landing area, started where a
\* complete run ended, leaves the staging table and the fact table as they were.
C7_RerunIsNoOp ==
    (Completed /\ mark # <<>>) =>
        /\ staging = mark[1].staging
        /\ fact = mark[1].fact

IsPrefix(a, b) == Len(a) <= Len(b) /\ SubSeq(b, 1, Len(a)) = a

\* C9: every step keeps the quarantine table and every entry in it, where
\* it was and as it was; a step only adds entries after them.
C9_QuarantineAppendOnly ==
    [][quarantine # NoTable =>
          /\ quarantine' # NoTable
          /\ IsPrefix(Content(quarantine), Content(quarantine'))]_vars

\* two quality runs have each added entries to the quarantine table
C9_Witness ==
    /\ quarantine # NoTable
    /\ \E i, j \in 1..Len(Content(quarantine)) :
        Content(quarantine)[i].error_timestamp # Content(quarantine)[j].error_timestamp

Entries(q) == IF q = NoTable THEN <<>> ELSE Content(q)

\* the staging table is there and lacks one of the seven required columns
ColumnMissing ==
    /\ staging # NoTable
    /\ \E k \in 1..Len(EXPECTED_COLUMNS) : EXPECTED_COLUMNS[k] \notin schema

\* C13: when staging lacks a required column, apply_data_quality_checks on
\* it raises and returns no frame, and the quality task of that run fails
\* without a new quarantine entry, leaves the valid file and the fact table
\* as they are, and the load task does not follow it.
C13_MissingColumnIsFatal ==
    [][(pc = "run_data_quality" /\ ColumnMissing) =>
          LET res == apply_data_quality_checks(schema, Frame(Content(staging)),
                                               load_products(products), clock + 1)
          IN /\ res.raised # None
             /\ DOMAIN res = {"raised"}
             /\ result' = "failed"
             /\ pc' # "load_fact_table"
             /\ Entries(quarantine') = Entries(quarantine)
             /\ validcsv' = validcsv
             /\ fact' = fact]_vars

\* a run over a staging table without the status column is over: the
\* quality task failed twice, the quarantine table was created and is empty
C13_Witness ==
    /\ ColumnMissing
    /\ pc = "generate_source_data"
    /\ result = "failed"
    /\ quarantine = Table(<<>>)
    /\ validcsv = NoFile
    /\ fact = <<>>

----------------------------------------------------------------------------
(* Claims on the quality gate (GateSpec) *)

HasEntry(i, msg) == \E k \in EntriesOf(i) : Rejected[k].error_message = msg

\* the rules of the chain, as they read on one input record
FailsNull(r) == \E k \in 1..Len(NOT_NULL_COLUMNS) : isnull(r[NOT_NULL_COLUMNS[k]])

FirstNull(r, cols) ==
    cols[CHOOSE k \in 1..Len(cols) :
            /\ isnull(r[cols[k]])
            /\ \A j \in 1..(k - 1) : notnull(r[cols[j]])]

FailsAmount(r) == notnull(r.amount) /\ Val(r.amount) <= 0

FailsStatus(r) == isnull(r.status) \/ Val(str_lower(r.status)) \notin VALID_STATUS

FailsProduct(r) ==
    inp.products_set # {} /\ (isnull(r.product_id) \/ Val(r.product_id) \notin inp.products_set)

\* the reason of the earliest rule input record i fails, "" if it fails none
EarliestReason(i) ==
    LET r == InRow(i)
    IN IF ~UniqueId(i) THEN DuplicateMsg
       ELSE IF FailsNull(r) THEN NullMsg(FirstNull(r, NOT_NULL_COLUMNS))
       ELSE IF FailsAmount(r) THEN AmountMsg
       ELSE IF FailsStatus(r) THEN StatusMsg
       ELSE IF FailsProduct(r) THEN ProductMsg
       ELSE ""

\* C2: every input record is in exactly one of accepted and rejected:
\* accepted and rejected together are the input, and they share no record.
C2_PartitionComplete ==
    GateDone => (AccIdx \cup RejIdx = InIdx /\ AccIdx \cap RejIdx = {})

\* C3: every record whose transaction_id occurs more than once in the input
\* is rejected as a duplicate, the first occurrence too, and none of them is
\* accepted.
C3_DuplicatesAllRejected ==
    GateDone =>
        \A i \in InIdx :
            ~UniqueId(i) => (HasEntry(i, DuplicateMsg) /\ i \notin AccIdx)

\* C4: a rejected record has one rejection entry, and its reason is that of
\* the earliest rule of the chain (duplicate, null field, amount, status,
\* product reference) the record fails.
C4_SingleReason ==
    GateDone =>
        \A i \in InIdx :
            /\ Cardinality(EntriesOf(i)) <= 1
            /\ \A k \in EntriesOf(i) : Rejected[k].error_message = EarliestReason(i)

\* C8: a record with a unique transaction_id and a null in any of the seven
\* required fields is not accepted and is rejected for the first null field.
C8_RequiredFieldsNotNull ==
    GateDone =>
        \A i \in InIdx :
            (UniqueId(i) /\ \E k \in 1..Len(EXPECTED_COLUMNS) : isnull(InRow(i)[EXPECTED_COLUMNS[k]]))
                => /\ i \notin AccIdx
                   /\ HasEntry(i, NullMsg(FirstNull(InRow(i), EXPECTED_COLUMNS)))

\* input record i has a transaction_id of its own, a value in each of the
\* seven required fields and an amount of zero or less
BadAmountOnly(i) ==
    /\ UniqueId(i)
    /\ \A k \in 1..Len(EXPECTED_COLUMNS) : notnull(InRow(i)[EXPECTED_COLUMNS[k]])
    /\ Val(InRow(i).amount) <= 0

AmountPositive(i) == notnull(InRow(i).amount) /\ Val(InRow(i).amount) > 0

\* the rule on amounts, with msg the reason its rejection entries carry
AmountRule(msg) ==
    GateDone =>
        \A i \in InIdx :
            /\ BadAmountOnly(i) =>
                  /\ i \notin AccIdx
                  /\ Cardinality(EntriesOf(i)) = 1
                  /\ HasEntry(i, msg)
            /\ AmountPositive(i) => ~HasEntry(i, msg)

\* C14 as stated: a record with a unique transaction_id, no null required
\* field and amount <= 0 is not accepted and has exactly one rejection
\* entry, with the reason "amount must be positive"; a record with amount > 0
\* has no entry with that reason.
C14_AmountMustBePositive == AmountRule("amount must be positive")

\* C14, amended: the same, with the reason the gate writes, "Amount must be > 0".
C14_AmountRejectedOnce == AmountRule(AmountMsg)

\* a record with amount -10 and a status outside the domain, rejected for
\* its amount, next to a record with amount 0 rejected for it too
C14_Witness ==
    /\ GateDone
    /\ \E i, j \in InIdx :
          /\ BadAmountOnly(i)
          /\ InRow(i).amount = Some(-10)
          /\ InRow(i).status = Some("FAILED")
          /\ HasEntry(i, AmountMsg)
          /\ InRow(j).amount = Some(0)
          /\ HasEntry(j, AmountMsg)

\* a status in lower case
LowerCase(str) ==
    CASE str = "SUCCESS" -> "success"
      [] str = "FAILED" -> "failed"
      [] str = "PENDING" -> "pending"
      [] OTHER -> str

\* the input with every status written in lower case
LowerCased(rows) ==
    [i \in 1..Len(rows) |->
        [rows[i] EXCEPT !.status = IF isnull(@) THEN @ ELSE Some(LowerCase(Val(@)))]]

\* input record i breaks none of the other rules
OtherwiseValid(i) ==
    /\ UniqueId(i)
    /\ \A k \in 1..Len(EXPECTED_COLUMNS) : notnull(InRow(i)[EXPECTED_COLUMNS[k]])
    /\ Val(InRow(i).amount) > 0
    /\ inp.products_set # {} => Val(InRow(i).product_id) \in inp.products_set

\* C15: the gate returns for an input what it returns for the same input
\* with every status in lower case, so inputs that differ only in the case
\* of status are partitioned alike; and an otherwise valid record whose
\* status in lower case is in the domain is accepted, with its status in
\* lower case, and has no rejection entry.
C15_StatusCaseInsensitive ==
    GateDone =>
        /\ out[1] = apply_data_quality_checks(Range(EXPECTED_COLUMNS),
                                              Frame(LowerCased(inp.df)),
                                              inp.products_set, 1)
        /\ \A i \in InIdx :
              (OtherwiseValid(i) /\ LowerCase(Val(InRow(i).status)) \in VALID_STATUS) =>
                  /\ EntriesOf(i) = {}
                  /\ \E k \in 1..Len(Accepted) :
                        /\ Accepted[k].idx = i
                        /\ Accepted[k].row =
                               [InRow(i) EXCEPT !.status = Some(LowerCase(Val(@)))]

\* a record with status SUCCESS and one with status success are both
\* accepted, with the status success
C15_Witness ==
    /\ GateDone
    /\ \E i, j \in InIdx :
          /\ InRow(i).status = Some("SUCCESS")
          /\ InRow(j).status = Some("success")
          /\ \E k, l \in 1..Len(Accepted) :
                /\ Accepted[k].idx = i
                /\ Accepted[l].idx = j
                /\ Accepted[k].row.status = Some("success")
                /\ Accepted[l].row.status = Some("success")

\* input record i is left by the first four rules as the gate applies
\* them: it is the first with its transaction_id, has no null in the
\* not-null columns, an amount above zero and a status of the domain
SurvivesFourRules(i) ==
    /\ \A j \in InIdx : j < i => InRow(j).transaction_id # InRow(i).transaction_id
    /\ ~FailsNull(InRow(i))
    /\ Val(InRow(i).amount) > 0
    /\ ~FailsStatus(InRow(i))

\* C16: with an empty reference set (the products table empty or not
\* readable) no entry has the reason of the product rule and the accepted
\* records are those the first four rules leave, whatever their product_id;
\* with a non-empty set, a record the first four rules leave is accepted if
\* and only if its product_id is in the set.
C16_ReferenceRuleSkipped ==
    /\ load_products(NoTable) = {}
    /\ GateDone =>
          /\ inp.products_set = {} =>
                /\ \A k \in 1..Len(Rejected) : Rejected[k].error_message # ProductMsg
                /\ AccIdx = {i \in InIdx : SurvivesFourRules(i)}
          /\ inp.products_set # {} =>
                \A i \in InIdx :
                    SurvivesFourRules(i) =>
                        (i \in AccIdx <=> Val(InRow(i).product_id) \in inp.products_set)

\* without a reference set a record with the unknown product p9 is accepted
C16_Witness ==
    /\ GateDone
    /\ inp.products_set = {}
    /\ \E i \in AccIdx : InRow(i).product_id = Some("p9")

----------------------------------------------------------------------------
(* Claims on the quality runs of the pipeline (Spec) *)

StagedRows == IF staging = NoTable THEN <<>> ELSE Content(staging)

\* no other staged row has the transaction_id of staged row i
StagedOnce(i) ==
    \A j \in 1..Len(StagedRows) :
        j # i => StagedRows[j].transaction_id # StagedRows[i].transaction_id

\* staged row i fails a rule of the gate as it runs over the whole table
StagedRowFails(i) ==
    LET r == StagedRows[i]
    IN \/ ~StagedOnce(i)
       \/ FailsNull(r)
       \/ FailsAmount(r)
       \/ FailsStatus(r)
       \/ load_products(products) # {} /\ ~isin(r.product_id, load_products(products))

\* the entries of quarantine table q that carry the transaction_id t
EntryCount(q, t) ==
    Cardinality({k \in 1..Len(Entries(q)) : Entries(q)[k].transaction_id = t})

\* the quality task exits 0 in this step
QualityTaskSucceeds == pc = "run_data_quality" /\ pc' = "load_fact_table"

\* C17 as stated, step by step: a staged row that fails a rule and has its
\* transaction_id to itself gains one quarantine entry when the quality
\* task of a run succeeds and none in any other step, so that its entries
\* count the runs that completed with it in staging.
C17_OneEntryPerCompletedRun ==
    [][\A i \in 1..Len(StagedRows) :
          (StagedRowFails(i) /\ StagedOnce(i)) =>
              LET t == StagedRows[i].transaction_id
              IN IF QualityTaskSucceeds
                 THEN EntryCount(quarantine', t) = EntryCount(quarantine, t) + 1
                 ELSE EntryCount(quarantine', t) = EntryCount(quarantine, t)]_vars

\* C17, amended: no step takes an entry away, and every quality task that
\* succeeds adds, for every staged row that fails a rule, whenever it was
\* staged, at least one entry with its transaction_id, and exactly one if
\* no other staged row has that transaction_id.
C17_EveryStagedRowRechecked ==
    [][\A i \in 1..Len(StagedRows) :
          StagedRowFails(i) =>
              LET t == StagedRows[i].transaction_id
              IN /\ EntryCount(quarantine', t) >= EntryCount(quarantine, t)
                 /\ QualityTaskSucceeds =>
                       /\ EntryCount(quarantine', t) >= EntryCount(quarantine, t) + 1
                       /\ StagedOnce(i) =>
                             EntryCount(quarantine', t) = EntryCount(quarantine, t) + 1]_vars

\* two runs have completed over a staged row with a bad amount, staged by
\* the first of them, and the quarantine table holds entries for it from
\* two quality runs
C17_Witness ==
    /\ Completed
    /\ runs = 2
    /\ \E i \in 1..Len(StagedRows) :
          /\ StagedOnce(i)
          /\ FailsAmount(StagedRows[i])
          /\ \E k, l \in 1..Len(Entries(quarantine)) :
                /\ Entries(quarantine)[k].transaction_id = StagedRows[i].transaction_id
                /\ Entries(quarantine)[l].transaction_id = StagedRows[i].transaction_id
                /\ Entries(quarantine)[k].error_timestamp
                       # Entries(quarantine)[l].error_timestamp

\* the rows this step appends to staging
Appended == {k \in 1..Len(StagedRows') : k > Len(StagedRows)}

\* C18: in every step staging keeps its rows and the greatest updated_at
\* it holds does not go down; every row the step appends has an updated_at
\* above every timestamp staging held before the step; and no appended row
\* is a record that was at or under the watermark when it first landed, in
\* this run or in an earlier one, whatever its transaction_id is.
C18_WatermarkNeverDecreases ==
    [][/\ IsPrefix(StagedRows, StagedRows')
       /\ \A w \in StagedTimestamps(staging) : \E v \in StagedTimestamps(staging') : v >= w
       /\ \A k \in Appended :
             /\ \A w \in StagedTimestamps(staging) :
                   /\ notnull(StagedRows'[k].updated_at)
                   /\ Val(StagedRows'[k].updated_at) > w
             /\ StagedRows'[k] \notin late']_vars

\* a record with a transaction_id of its own landed under the watermark
\* after another run had staged newer rows; the run it landed in has
\* completed and staging has no row with its transaction_id
C18_Witness ==
    /\ Completed
    /\ Len(StagedRows) > 0
    /\ \E r \in late :
          \A k \in 1..Len(StagedRows) : StagedRows[k].transaction_id # r.transaction_id

----------------------------------------------------------------------------
(* Claims on the filter (FilterSpec) *)

\* C5: with a watermark, every record the filter returns is a record of the
\* batch whose updated_at is strictly greater than the watermark.
C5_WatermarkStrict ==
    (FilterDone /\ inp.max_updated_at # None) =>
        \A k \in 1..Len(Filtered) :
            /\ Filtered[k].idx \in InIdx
            /\ Filtered[k].row = InRow(Filtered[k].idx)
            /\ notnull(Filtered[k].row.updated_at)
            /\ Val(Filtered[k].row.updated_at) > Val(inp.max_updated_at)

\* a record is returned while a record at the watermark itself is held back
C5_Witness ==
    /\ FilterDone
    /\ inp.max_updated_at # None
    /\ Len(Filtered) > 0
    /\ \E i \in InIdx :
        /\ InRow(i).updated_at = inp.max_updated_at
        /\ \A k \in 1..Len(Filtered) : Filtered[k].idx # i

\* C12: with no watermark (staging absent, or holding no timestamp) the
\* filter returns, for every transaction_id of the batch, its first record
\* and no other, as it was in the batch, whatever its updated_at is.
C12_FullLoadOnFirstRun ==
    /\ get_max_updated_at(NoTable) = None
    /\ get_max_updated_at(Table(<<>>)) = None
    /\ (FilterDone /\ inp.max_updated_at = None) =>
          /\ \A i \in InIdx :
                (\E k \in 1..Len(Filtered) : Filtered[k].idx = i)
                    <=> \A j \in InIdx :
                          j < i => InRow(j).transaction_id # InRow(i).transaction_id
          /\ \A k \in 1..Len(Filtered) :
                /\ Filtered[k].idx \in InIdx
                /\ Filtered[k].row = InRow(Filtered[k].idx)
          /\ \A k, l \in 1..Len(Filtered) : k < l => Filtered[k].idx < Filtered[l].idx

\* a full load of a batch with two records of one id, the first of them
\* older than the second, and a record without a timestamp that is returned
C12_Witness ==
    /\ FilterDone
    /\ inp.max_updated_at = None
    /\ \E i, j \in InIdx :
          /\ i < j
          /\ InRow(i).transaction_id = InRow(j).transaction_id
          /\ InRow(i).updated_at = Some(1)
          /\ InRow(j).updated_at = Some(3)
    /\ \E k \in 1..Len(Filtered) : isnull(Filtered[k].row.updated_at)

----------------------------------------------------------------------------
(* Claims on the collector (CollectSpec) *)

\* the rows of the landing files, in the order of the concatenation
Landed == Concat(inp.files)

\* position i of the concatenation holds the first record with its transaction_id
FirstOfId(i) ==
    \A j \in 1..(i - 1) : Landed[j].transaction_id # Landed[i].transaction_id

PassesWatermark(i) ==
    \/ inp.max_updated_at = None
    \/ /\ notnull(Landed[i].updated_at)
       /\ Val(Landed[i].updated_at) > Val(inp.max_updated_at)

----------------------------------------------------------------------------
(* Claims on the fact merger (MergeSpec) *)

\* C6: two successful upserts of the same accepted frame leave the fact
\* table as one left it, with exactly one row per composite key of the frame.
C6_UpsertIdempotent ==
    \A i, j \in 1..Len(out) :
        (i < j /\ out[i].status = "ok" /\ out[j].status = "ok") =>
            /\ out[j].after = out[i].after
            /\ \A k \in 1..Len(inp.df) :
                Cardinality(RowsOfKey(out[j].after, inp.df[k])) = 1

\* the same frame went in twice, on top of an older version of one of its keys
C6_Witness ==
    /\ Len(out) >= 2
    /\ out[1].status = "ok"
    /\ out[2].status = "ok"
    /\ \E k \in 1..Len(inp.df) :
        \E i \in RowsOfKey(out[1].before, inp.df[k]) : out[1].before[i] # inp.df[k]

\* C10: a call either succeeds, and then every record of the frame is in the
\* fact table, or it fails, and then the fact table is as it was before.
C10_MergeAllOrNothing ==
    \A i \in 1..Len(out) :
        /\ out[i].status \in {"ok", "failed"}
        /\ out[i].status = "ok" =>
                \A k \in 1..Len(inp.df) : inp.df[k] \in Range(out[i].after)
        /\ out[i].status = "failed" => out[i].after = out[i].before

\* a call that changed the table, and a call that failed on a non-empty frame
C10_Witness ==
    /\ Len(out) >= 2
    /\ Len(inp.df) > 0
    /\ out[1].status = "failed"
    /\ out[2].status = "ok"
    /\ out[2].after # out[2].before

====
